---- MODULE Spec2Model ----
(***************************************************************************)
(* Model of the cooklang ingredient indexer (src/src/lib.rs).              *)
(*                                                                         *)
(* Text is modelled as a sequence of one-character strings, a filesystem   *)
(* path as a sequence of components (each a text), the index as a function *)
(* from ingredient names to sequences of paths.                            *)
(***************************************************************************)
EXTENDS Naturals, Sequences, FiniteSets

VARIABLES
    \* ---- the directory tree handed to IngredientIndex::new
    rootOk,       \* the root directory exists and can be listed
    cook,         \* cook[i]: what the i-th *.cook file is
    soup,         \* what the entry <root>/soup is
    decoy,        \* a file whose name merely resembles *.cook
    \* ---- index_recipes / IngredientIndex::new
    pc,           \* "walking", "built" (Ok(index)) or "failed" (Err)
    stack,        \* WalkDir's pending directory listings, innermost last
    recipes,      \* Vec<Recipe>
    reads,        \* paths handed to fs::read_to_string so far
    index,        \* IngredientIndex.index
    \* ---- queries on the built index
    query,        \* last argument of get_recipes_for_ingredient
    found,        \* its result
    page,         \* last generate_html call: [base_url, html]
    listed,       \* result of the last ingredients() call
    \* ---- the extractor applied to one text
    marker,       \* how the text was formed
    content,      \* the text
    names,        \* the extracted names
    \* ---- path_to_url applied to one input
    urlIn,        \* [path, base_url, base_dir, rel]
    urlOut        \* the returned text

scanVars == <<rootOk, cook, soup, decoy, pc, stack, recipes, reads, index,
              query, found, page, listed>>
exVars == <<marker, content, names>>
urlVars == <<urlIn, urlOut>>
vars == <<scanVars, exVars, urlVars>>

\* Option<T>: None, or Some(v)
None == <<>>
Some(v) == <<v>>
\* Option::unwrap
Unwrap(o) == o[1]

(***************************************************************************)
(* Characters and text                                                     *)
(***************************************************************************)

\* The printable ASCII characters in code-point order, from 32 (space); the
\* grave accent, which a TLA+ string cannot hold, is written U+0060.
Ascii ==
    <<" ", "!", "\"", "#", "$", "%", "&", "'", "(", ")", "*", "+", ",", "-",
      ".", "/", "0", "1", "2", "3", "4", "5", "6", "7", "8", "9", ":", ";",
      "<", "=", ">", "?", "@", "A", "B", "C", "D", "E", "F", "G", "H", "I",
      "J", "K", "L", "M", "N", "O", "P", "Q", "R", "S", "T", "U", "V", "W",
      "X", "Y", "Z", "[", "\\", "]", "^", "_", "U+0060", "a", "b", "c", "d", "e",
      "f", "g", "h", "i", "j", "k", "l", "m", "n", "o", "p", "q", "r", "s",
      "t", "u", "v", "w", "x", "y", "z", "{", "|", "}", "~">>

CharCode(c) ==
    IF c = "\n" THEN 10
    ELSE IF c = "\t" THEN 9
    ELSE 31 + CHOOSE i \in 1..Len(Ascii) : Ascii[i] = c

CharOf(n) == Ascii[n - 31]

IsUpper(c) == CharCode(c) >= 65 /\ CharCode(c) <= 90
IsAlnum(c) ==
    LET n == CharCode(c)
    IN  (n >= 48 /\ n <= 57) \/ (n >= 65 /\ n <= 90) \/ (n >= 97 /\ n <= 122)

\* char::is_whitespace, restricted to ASCII
IsWhitespace(c) == c \in {" ", "\t", "\n"}

\* str::to_lowercase
to_lowercase(s) ==
    [k \in 1..Len(s) |-> IF IsUpper(s[k]) THEN CharOf(CharCode(s[k]) + 32) ELSE s[k]]

RECURSIVE trim_start(_)
trim_start(s) ==
    IF s # <<>> /\ IsWhitespace(Head(s)) THEN trim_start(Tail(s)) ELSE s

RECURSIVE trim_end(_)
trim_end(s) ==
    IF s # <<>> /\ IsWhitespace(s[Len(s)])
    THEN trim_end(SubSeq(s, 1, Len(s) - 1)) ELSE s

\* str::trim
trim(s) == trim_end(trim_start(s))

Range(s) == {s[k] : k \in 1..Len(s)}

RECURSIVE CharLess(_, _)
\* Ord for str: byte-wise lexicographic
CharLess(a, b) ==
    IF b = <<>> THEN FALSE
    ELSE IF a = <<>> THEN TRUE
    ELSE IF Head(a) # Head(b) THEN CharCode(Head(a)) < CharCode(Head(b))
    ELSE CharLess(Tail(a), Tail(b))

(***************************************************************************)
(* The extractor: Regex @([^{@\n]+)(?:\{[^}]*\})? , captures_iter, then    *)
(* trim and to_lowercase of capture group 1                                *)
(***************************************************************************)

\* the ingredient class with '{' left out of it: [^@\n]
NameStopNoBrace == {"@", "\n"}

\* the ingredient class also ending at a blank: [^{@\n ]
NameStopBlank == {"{", "@", "\n", " "}

\* the characters the class [^{@\n] excludes
NameStop == {"{", "@", "\n"}

RECURSIVE NameEnd(_, _)
\* first position at or after k that [^{@\n]+ cannot take (greedy)
NameEnd(s, k) ==
    IF k > Len(s) \/ s[k] \in NameStop THEN k ELSE NameEnd(s, k + 1)

RECURSIVE BraceClose(_, _)
\* position of the first '}' at or after k, 0 when there is none
BraceClose(s, k) ==
    IF k > Len(s) THEN 0
    ELSE IF s[k] = "}" THEN k
    ELSE BraceClose(s, k + 1)

\* (?:\{[^}]*\})? tried at position k: the position after the match
MatchEnd(s, k) ==
    IF k <= Len(s) /\ s[k] = "{" /\ BraceClose(s, k + 1) # 0
    THEN BraceClose(s, k + 1) + 1
    ELSE k

RECURSIVE captures_iter(_, _)
\* capture group 1 of the successive non-overlapping matches from position i
captures_iter(s, i) ==
    IF i > Len(s) THEN <<>>
    ELSE IF s[i] = "@" /\ NameEnd(s, i + 1) > i + 1
         THEN <<SubSeq(s, i + 1, NameEnd(s, i + 1) - 1)>>
              \o captures_iter(s, MatchEnd(s, NameEnd(s, i + 1)))
         ELSE captures_iter(s, i + 1)

\* the names one file's text yields, in order of appearance
Extract(text) ==
    LET caps == captures_iter(text, 1)
    IN  [k \in 1..Len(caps) |-> to_lowercase(trim(caps[k]))]

(***************************************************************************)
(* Paths: std::path::Path over sequences of components                     *)
(***************************************************************************)

RECURSIVE LastDot(_, _)
\* position of the last '.' among the first k characters of n, 0 if none
LastDot(n, k) ==
    IF k = 0 THEN 0 ELSE IF n[k] = "." THEN k ELSE LastDot(n, k - 1)

\* Path::extension with the case folded before it is returned
extension_nocase(path) ==
    IF path = <<>> THEN None
    ELSE LET n == path[Len(path)]
             d == LastDot(n, Len(n))
         IN  IF d <= 1 THEN None
             ELSE Some(to_lowercase(SubSeq(n, d + 1, Len(n))))

\* Path::extension: None without a file name, without a '.', or when the only
\* '.' starts the name; otherwise what follows the last '.'
extension(path) ==
    IF path = <<>> THEN None
    ELSE LET n == path[Len(path)]
             d == LastDot(n, Len(n))
         IN  IF d <= 1 THEN None ELSE Some(SubSeq(n, d + 1, Len(n)))

\* Path::file_stem: the file name up to its last '.', under the same rules
file_stem(path) ==
    IF path = <<>> THEN None
    ELSE LET n == path[Len(path)]
             d == LastDot(n, Len(n))
         IN  IF d <= 1 THEN Some(n) ELSE Some(SubSeq(n, 1, d - 1))

\* Path::strip_prefix, component-wise; None when base is no prefix of path
strip_prefix(path, base) ==
    IF Len(base) <= Len(path) /\ SubSeq(path, 1, Len(base)) = base
    THEN Some(SubSeq(path, Len(base) + 1, Len(path)))
    ELSE None

RECURSIVE to_str(_)
\* Path::to_str: the components joined by '/'
to_str(path) ==
    IF path = <<>> THEN <<>>
    ELSE IF Len(path) = 1 THEN path[1]
    ELSE path[1] \o <<"/">> \o to_str(Tail(path))

RECURSIVE PathLess(_, _)
\* Ord for Path: component by component, each as a byte string
PathLess(p, q) ==
    IF q = <<>> THEN FALSE
    ELSE IF p = <<>> THEN TRUE
    ELSE IF Head(p) # Head(q) THEN CharLess(Head(p), Head(q))
    ELSE PathLess(Tail(p), Tail(q))

RECURSIVE InsertPath(_, _)
InsertPath(s, x) ==
    IF s = <<>> THEN <<x>>
    ELSE IF PathLess(x, Head(s)) THEN <<x>> \o s
    ELSE <<Head(s)>> \o InsertPath(Tail(s), x)

RECURSIVE SortPaths(_)
\* slice::sort (stable) on paths: each element inserted after its equals
SortPaths(s) ==
    IF s = <<>> THEN <<>>
    ELSE InsertPath(SortPaths(SubSeq(s, 1, Len(s) - 1)), s[Len(s)])

RECURSIVE InsertName(_, _)
InsertName(s, x) ==
    IF s = <<>> THEN <<x>>
    ELSE IF CharLess(x, Head(s)) THEN <<x>> \o s
    ELSE <<Head(s)>> \o InsertName(Tail(s), x)

RECURSIVE SortNames(_)
\* slice::sort (stable) on strings
SortNames(s) ==
    IF s = <<>> THEN <<>>
    ELSE InsertName(SortNames(SubSeq(s, 1, Len(s) - 1)), s[Len(s)])

\* paths.sort() left out: the list stays in insertion order
sort_paths_missing(paths) == paths

\* paths.sort()
sort_paths(paths) == SortPaths(paths)

\* ingredients.sort() left out: the keys stay in the map's iteration order
sort_names_missing(ns) == ns

\* ingredients.sort()
sort_names(ns) == SortNames(ns)

(***************************************************************************)
(* create_ingredient_index                                                 *)
(***************************************************************************)

\* index.entry(ingredient).or_default().push(path)
Push(idx, ingredient, path) ==
    [k \in DOMAIN idx \cup {ingredient} |->
        IF k = ingredient
        THEN (IF k \in DOMAIN idx THEN Append(idx[k], path) ELSE <<path>>)
        ELSE idx[k]]

RECURSIVE PushAll(_, _, _)
\* for ingredient in &recipe.ingredients
PushAll(idx, ings, path) ==
    IF ings = <<>> THEN idx
    ELSE PushAll(Push(idx, Head(ings), path), Tail(ings), path)

RECURSIVE PushRecipes(_, _)
\* for recipe in recipes
PushRecipes(idx, rs) ==
    IF rs = <<>> THEN idx
    ELSE PushRecipes(PushAll(idx, Head(rs).ingredients, Head(rs).path), Tail(rs))

EmptyIndex == [k \in {} |-> <<>>]

create_ingredient_index(rs) ==
    LET idx == PushRecipes(EmptyIndex, rs)
    IN  [k \in DOMAIN idx |-> sort_paths(idx[k])]

(***************************************************************************)
(* path_to_url                                                             *)
(***************************************************************************)

Hex == <<"0", "1", "2", "3", "4", "5", "6", "7", "8", "9",
         "A", "B", "C", "D", "E", "F">>

\* the characters urlencoding::encode keeps
Unreserved(c) == IsAlnum(c) \/ c \in {"-", "_", ".", "~"}

\* urlencoding::encode leaving every byte as it is
encode_nothing(s) == s

RECURSIVE encode(_)
\* urlencoding::encode: every other byte becomes %XX
encode(s) ==
    IF s = <<>> THEN <<>>
    ELSE (IF Unreserved(Head(s)) THEN <<Head(s)>>
          ELSE <<"%", Hex[(CharCode(Head(s)) \div 16) + 1],
                      Hex[(CharCode(Head(s)) % 16) + 1]>>)
         \o encode(Tail(s))

RECURSIVE trim_end_matches(_, _)
\* str::trim_end_matches(c): every trailing c removed
trim_end_matches(s, c) ==
    IF s # <<>> /\ s[Len(s)] = c
    THEN trim_end_matches(SubSeq(s, 1, Len(s) - 1), c) ELSE s

path_to_url(path, base_url, base_dir) ==
    LET relative_path ==
            IF strip_prefix(path, base_dir) = None THEN path
            ELSE Unwrap(strip_prefix(path, base_dir))
        stem == IF file_stem(relative_path) = None THEN <<"u", "n", "k", "n", "o", "w", "n">>
                ELSE Unwrap(file_stem(relative_path))
        parent_path ==
            IF relative_path = <<>> THEN <<>>
            ELSE to_str(SubSeq(relative_path, 1, Len(relative_path) - 1))
        final_path == IF parent_path = <<>> THEN stem
                      ELSE parent_path \o <<"/">> \o stem
        base == trim_end_matches(base_url, "/")
    IN  base \o <<"/">> \o encode(final_path)

(***************************************************************************)
(* generate_html_index.  The document is a sequence of tokens: each piece  *)
(* of literal template text is one token, inserted text is one token per   *)
(* character.                                                              *)
(***************************************************************************)

HtmlHead ==
    <<
      "<!DOCTYPE html>\n",
      "<html lang=\"en\">\n",
      "<head>\n",
      "    <meta charset=\"UTF-8\">\n",
      "    <meta name=\"viewport\" content=\"width=device-width, initial-scale=1.0\">\n",
      "    <title>Recipe Ingredient Index</title>\n",
      "    <style>\n",
      "        body {\n",
      "            font-family: -apple-system, BlinkMacSystemFont, \"Segoe UI\", Roboto, sans-serif;\n",
      "            max-width: 800px;\n",
      "            margin: 0 auto;\n",
      "            padding: 20px;\n",
      "            line-height: 1.6;\n",
      "        }\n",
      "        h1 {\n",
      "            color: #2c3e50;\n",
      "            border-bottom: 2px solid #eee;\n",
      "            padding-bottom: 10px;\n",
      "        }\n",
      "        .ingredient {\n",
      "            margin: 20px 0;\n",
      "        }\n",
      "        .ingredient-name {\n",
      "            font-weight: bold;\n",
      "            color: #34495e;\n",
      "            margin-bottom: 5px;\n",
      "        }\n",
      "        .recipe-list {\n",
      "            margin-left: 20px;\n",
      "            list-style-type: none;\n",
      "        }\n",
      "        .recipe-list li {\n",
      "            margin: 5px 0;\n",
      "        }\n",
      "        a {\n",
      "            color: #3498db;\n",
      "            text-decoration: none;\n",
      "        }\n",
      "        a:hover {\n",
      "            text-decoration: underline;\n",
      "        }\n",
      "    </style>\n",
      "</head>\n",
      "<body>\n",
      "    <h1>Recipe Ingredient Index</h1>\n"
    >>

\* str::replace(from, to) for one-character patterns
replace(s, from, to) == [k \in 1..Len(s) |-> IF s[k] = from THEN to ELSE s[k]]

recipe_link(recipe_path, base_url, base_dir) ==
    LET stem == IF file_stem(recipe_path) = None THEN <<"U", "n", "k", "n", "o", "w", "n", " ", "R", "e", "c", "i", "p", "e">>
                ELSE Unwrap(file_stem(recipe_path))
        recipe_name == replace(replace(stem, "-", " "), "_", " ")
        url == path_to_url(recipe_path, base_url, base_dir)
    IN  <<"        <li><a href=\"">> \o url \o <<"\">">> \o recipe_name
        \o <<"</a></li>\n">>

RECURSIVE recipe_links(_, _, _)
recipe_links(paths, base_url, base_dir) ==
    IF paths = <<>> THEN <<>>
    ELSE recipe_link(Head(paths), base_url, base_dir)
         \o recipe_links(Tail(paths), base_url, base_dir)

RECURSIVE ingredient_blocks(_, _, _, _)
ingredient_blocks(idx, ingredients, base_url, base_dir) ==
    IF ingredients = <<>> THEN <<>>
    ELSE <<"<div class=\"ingredient\">\n", "    <div class=\"ingredient-name\">">>
         \o Head(ingredients)
         \o <<"</div>\n", "    <ul class=\"recipe-list\">\n">>
         \o recipe_links(idx[Head(ingredients)], base_url, base_dir)
         \o <<"    </ul>\n", "</div>\n">>
         \o ingredient_blocks(idx, Tail(ingredients), base_url, base_dir)

\* keys: index.keys().collect(), in the order the HashMap happens to iterate
generate_html_index(idx, keys, base_url, base_dir) ==
    HtmlHead
    \o ingredient_blocks(idx, sort_names(keys), base_url, base_dir)
    \o <<"</body>\n</html>">>

(***************************************************************************)
(* IngredientIndex::get_recipes_for_ingredient                             *)
(***************************************************************************)

\* the lookup with the query trimmed and lower-cased first
get_recipes_normalized(idx, ingredient) ==
    IF to_lowercase(trim(ingredient)) \in DOMAIN idx
    THEN Some(idx[to_lowercase(trim(ingredient))]) ELSE None

\* self.index.get(ingredient)
get_recipes_for_ingredient(idx, ingredient) ==
    IF ingredient \in DOMAIN idx THEN Some(idx[ingredient]) ELSE None

(***************************************************************************)
(* The directory tree                                                      *)
(***************************************************************************)

\* how many *.cook files the tree may hold
MaxFiles == 2

CookExt == <<"c", "o", "o", "k">>
DotCook == <<".", "c", "o", "o", "k">>
\* the stems of the recipe files, by number
CookStems == <<<<"t", "_", "t">>, <<"a", "-", "b">>, <<"c", "_", "-", "d">>,
               <<"b">>, <<"s">>>>

\* the root handed to IngredientIndex::new, kept as base_dir
Root == <<<<"r", "e", "c", "i", "p", "e", "s">>>>
SoupPath == Root \o <<<<"s", "o", "u", "p">>>>

\* odd-numbered recipe files lie in the root, even-numbered ones in soup/
CookPath(i) ==
    (IF i % 2 = 1 THEN Root ELSE SoupPath) \o <<CookStems[i] \o DotCook>>

TextDup == <<"@", "E", "g", "g", "{", "1", "}", "@", "e", "g", "g">>
TextTag == <<"@", "e", "g", "g", " ", "@", "<", "b", ">">>
TextPlain == <<"m", "i", "x">>
TextBlank == <<"@", " ", "{", "1", "}", "@", "E", "g", "g">>
Texts == {TextDup, TextTag, TextPlain, TextBlank}

CookStates ==
    {[state |-> "absent", text |-> <<>>], [state |-> "unreadable", text |-> <<>>]}
    \cup {[state |-> "text", text |-> x] : x \in Texts}

DecoyNames == {<<"x", ".", "c", "o", "o", "k", ".", "b", "a", "k">>,
               <<"x", ".", "C", "O", "O", "K">>,
               <<"x", ".", "c", "o", "o", "k", "i", "e">>,
               <<".", "c", "o", "o", "k">>}

DecoyStates ==
    {[state |-> "absent", name |-> <<>>]}
    \cup {[state |-> "text", name |-> n] : n \in DecoyNames}

DecoyPath == Root \o <<decoy.name>>

\* the entries read_dir lists in a directory
Children(dir) ==
    IF dir = Root
    THEN {CookPath(i) : i \in {j \in 1..MaxFiles : j % 2 = 1 /\ cook[j].state # "absent"}}
         \cup {SoupPath}
         \cup (IF decoy.state = "absent" THEN {} ELSE {DecoyPath})
    ELSE IF dir = SoupPath
    THEN {CookPath(i) : i \in {j \in 1..MaxFiles : j % 2 = 0 /\ cook[j].state # "absent"}}
    ELSE {}

\* what WalkDir finds at an entry: "error" (the entry cannot be stat-ed, a
\* broken link), "dir", "denied" (a directory that cannot be listed), "file"
Kind(e) ==
    IF e = Root THEN (IF rootOk THEN "dir" ELSE "error")
    ELSE IF e = SoupPath THEN soup
    ELSE "file"

\* fs::read_to_string(path): Some(text), or None for an Err
read_to_string(e) ==
    IF Kind(e) # "file" THEN None
    ELSE IF decoy.state # "absent" /\ e = DecoyPath THEN Some(TextDup)
    ELSE LET i == CHOOSE j \in 1..MaxFiles : CookPath(j) = e
         IN  IF cook[i].state = "text" THEN Some(cook[i].text) ELSE None

(***************************************************************************)
(* index_recipes and IngredientIndex::new                                  *)
(***************************************************************************)

RECURSIVE Unwind(_)
\* WalkDir leaves every directory whose listing is exhausted
Unwind(st) ==
    IF st # <<>> /\ st[Len(st)] = {} THEN Unwind(SubSeq(st, 1, Len(st) - 1)) ELSE st

\* the walk after it yielded e: e leaves its listing; a listable directory is
\* descended into at once (depth first)
After(e) ==
    LET n == Len(stack)
        popped == [stack EXCEPT ![n] = @ \ {e}]
    IN  Unwind(IF Kind(e) = "dir" THEN Append(popped, Children(e)) ELSE popped)

\* the entries the innermost listing may yield next in the for loop of
\* index_recipes
Pending == IF pc = "walking" /\ stack # <<>> THEN stack[Len(stack)] ELSE {}

\* filter_map(|e| e.ok()): an entry WalkDir reports as Err is dropped
SkipEntry(e) ==
    /\ e \in Pending
    /\ Kind(e) \in {"error", "broken"}
    /\ stack' = After(e)
    /\ UNCHANGED <<rootOk, cook, soup, decoy, pc, recipes, reads, index,
                   query, found, page, listed>>

\* an entry whose extension is not "cook": nothing is read
VisitOther(e) ==
    /\ e \in Pending
    /\ Kind(e) \notin {"error", "broken"}
    /\ extension(e) # Some(CookExt)
    /\ stack' = After(e)
    /\ UNCHANGED <<rootOk, cook, soup, decoy, pc, recipes, reads, index,
                   query, found, page, listed>>

\* a *.cook entry that reads: its names are extracted, and it is recorded
\* when there is at least one
ReadRecipe(e) ==
    /\ e \in Pending
    /\ Kind(e) \notin {"error", "broken"}
    /\ extension(e) = Some(CookExt)
    /\ read_to_string(e) # None
    /\ LET ingredients == Extract(Unwrap(read_to_string(e)))
       IN  recipes' = IF ingredients # <<>>
                      THEN Append(recipes, [path |-> e, ingredients |-> ingredients])
                      ELSE recipes
    /\ reads' = reads \cup {e}
    /\ stack' = After(e)
    /\ UNCHANGED <<rootOk, cook, soup, decoy, pc, index, query, found, page, listed>>

\* a *.cook entry that does not read: `?` returns the Err from index_recipes,
\* and from new
ReadFails(e) ==
    /\ e \in Pending
    /\ Kind(e) \notin {"error", "broken"}
    /\ extension(e) = Some(CookExt)
    /\ read_to_string(e) = None
    /\ reads' = reads \cup {e}
    /\ pc' = "failed"
    /\ stack' = <<>>
    /\ UNCHANGED <<rootOk, cook, soup, decoy, recipes, index, query, found, page, listed>>

\* the walk is over: Ok(recipes), and new wraps create_ingredient_index
new ==
    /\ pc = "walking"
    /\ stack = <<>>
    /\ pc' = "built"
    /\ index' = create_ingredient_index(recipes)
    /\ UNCHANGED <<rootOk, cook, soup, decoy, stack, recipes, reads, query, found, page, listed>>

(***************************************************************************)
(* Calls on the built index                                                *)
(***************************************************************************)

Queries == {<<"e", "g", "g">>, <<"E", "g", "g">>, <<" ", "e", "g", "g">>,
            <<"<", "b", ">">>, <<"o", "i", "l">>}

BaseUrls == {<<"h", "t", "t", "p", ":", "/", "/", "h">>, <<"h", "t", "t", "p", ":", "/", "/", "h", "/">>}

\* the orders in which a HashMap may iterate the keys S
Orders(S) == {s \in [1..Cardinality(S) -> S] : Range(s) = S}

Lookup ==
    /\ pc = "built"
    /\ \E q \in Queries :
          /\ query' = Some(q)
          /\ found' = get_recipes_for_ingredient(index, q)
    /\ UNCHANGED <<rootOk, cook, soup, decoy, pc, stack, recipes, reads, index, page, listed>>

\* IngredientIndex::ingredients: the keys collected in the map's iteration
\* order, then sorted
ingredients ==
    /\ pc = "built"
    /\ \E keys \in Orders(DOMAIN index) : listed' = Some(sort_names(keys))
    /\ UNCHANGED <<rootOk, cook, soup, decoy, pc, stack, recipes, reads, index,
                   query, found, page>>

generate_html ==
    /\ pc = "built"
    /\ \E u \in BaseUrls, keys \in Orders(DOMAIN index) :
          page' = [base_url |-> u,
                   html |-> generate_html_index(index, keys, u, Root)]
    /\ UNCHANGED <<rootOk, cook, soup, decoy, pc, stack, recipes, reads, index,
                   query, found, listed>>

(***************************************************************************)
(* Specification of a scan and the calls that follow it                    *)
(***************************************************************************)

ExIdle ==
    /\ marker = [form |-> "none", X |-> <<>>, ann |-> <<>>]
    /\ content = <<>>
    /\ names = None

UrlIdle ==
    /\ urlIn = [rel |-> <<>>, base_url |-> <<>>, base_dir |-> <<>>, path |-> <<>>]
    /\ urlOut = None

\* every entry a tree of the model can hold
Entries ==
    {Root, SoupPath} \cup {CookPath(i) : i \in 1..MaxFiles}
    \cup {Root \o <<n>> : n \in DecoyNames}

Trees ==
    /\ rootOk \in BOOLEAN
    /\ cook \in [1..MaxFiles -> CookStates]
    /\ soup \in {"dir", "denied", "broken"}
    /\ decoy \in DecoyStates
    /\ rootOk = FALSE =>
          /\ \A i \in 1..MaxFiles : cook[i].state = "absent"
          /\ soup = "broken"
          /\ decoy.state = "absent"

ScanIdle ==
    /\ rootOk = FALSE
    /\ cook = [i \in 1..MaxFiles |-> [state |-> "absent", text |-> <<>>]]
    /\ soup = "broken"
    /\ decoy = [state |-> "absent", name |-> <<>>]
    /\ pc = "idle"
    /\ stack = <<>>
    /\ recipes = <<>>
    /\ reads = {}
    /\ index = EmptyIndex
    /\ query = None
    /\ found = None
    /\ page = [base_url |-> <<>>, html |-> <<>>]
    /\ listed = None

Init ==
    /\ Trees
    /\ pc = "walking"
    /\ stack = <<{Root}>>
    /\ recipes = <<>>
    /\ reads = {}
    /\ index = EmptyIndex
    /\ query = None
    /\ found = None
    /\ page = [base_url |-> <<>>, html |-> <<>>]
    /\ listed = None
    /\ ExIdle
    /\ UrlIdle

Next ==
    \/ \E e \in Entries : SkipEntry(e) /\ UNCHANGED <<exVars, urlVars>>
    \/ \E e \in Entries : VisitOther(e) /\ UNCHANGED <<exVars, urlVars>>
    \/ \E e \in Entries : ReadRecipe(e) /\ UNCHANGED <<exVars, urlVars>>
    \/ \E e \in Entries : ReadFails(e) /\ UNCHANGED <<exVars, urlVars>>
    \/ new /\ UNCHANGED <<exVars, urlVars>>
    \/ Lookup /\ UNCHANGED <<exVars, urlVars>>

\* a scan, then lookups on the index it built
Spec == Init /\ [][Next]_vars

NextRender ==
    \/ \E e \in Entries : SkipEntry(e) /\ UNCHANGED <<exVars, urlVars>>
    \/ \E e \in Entries : VisitOther(e) /\ UNCHANGED <<exVars, urlVars>>
    \/ \E e \in Entries : ReadRecipe(e) /\ UNCHANGED <<exVars, urlVars>>
    \/ \E e \in Entries : ReadFails(e) /\ UNCHANGED <<exVars, urlVars>>
    \/ new /\ UNCHANGED <<exVars, urlVars>>
    \/ generate_html /\ UNCHANGED <<exVars, urlVars>>
    \/ ingredients /\ UNCHANGED <<exVars, urlVars>>

\* a scan, then ingredients() and generate_html on the index it built
SpecRender == Init /\ [][NextRender]_vars

(***************************************************************************)
(* Specification of the extractor applied to one text                      *)
(***************************************************************************)

\* longest ingredient name X, longest annotation, of the marker texts drawn
MaxNameLen == 3
MaxAnnLen == 2

\* X: no '@', '{' or newline
NameChars == {"a", "B", " ", "}"}
\* the annotation: no '}'
AnnChars == {"a", "@", "{", "\n"}

SeqsUpTo(S, n) == UNION {[1..k -> S] : k \in 0..n}

Example == <<"A", "d", "d", " ", "@", "c", "h", "i", "c", "k", "e", "n", "{", "1", " ", "k", "g", "}", " ", "a", "n", "d", " ", "@", "o", "n", "i", "o", "n", ",", " ", "d", "i", "c", "e", "d", ".">>

Markers ==
    {[form |-> "braced", X |-> x, ann |-> a] :
        x \in SeqsUpTo(NameChars, MaxNameLen) \ {<<>>},
        a \in SeqsUpTo(AnnChars, MaxAnnLen)}
    \cup {[form |-> "bare", X |-> x, ann |-> <<>>] :
        x \in SeqsUpTo(NameChars, MaxNameLen) \ {<<>>}}
    \cup {[form |-> "example", X |-> <<>>, ann |-> <<>>]}

MarkerText(m) ==
    IF m.form = "braced" THEN <<"@">> \o m.X \o <<"{">> \o m.ann \o <<"}">>
    ELSE IF m.form = "bare" THEN <<"@">> \o m.X
    ELSE Example

InitExtract ==
    /\ marker \in Markers
    /\ content = MarkerText(marker)
    /\ names = None
    /\ ScanIdle
    /\ UrlIdle

\* captures_iter(&content).map(|cap| cap[1].trim().to_lowercase()).collect()
ExtractNames ==
    /\ names = None
    /\ names' = Some(Extract(content))
    /\ UNCHANGED <<marker, content, scanVars, urlVars>>

NextExtract == ExtractNames

SpecExtract == InitExtract /\ [][NextExtract]_vars

(***************************************************************************)
(* Specification of path_to_url applied to one input                       *)
(***************************************************************************)

\* deepest recipe path below base_dir
MaxDepth == 2

PathNames == {<<"a", ".", "c", "o", "o", "k">>, <<"b", " ", "c", ".", "c", "o", "o", "k">>,
              <<"m", "y", " ", "s", "o", "u", "p">>, <<".", "c", "o", "o", "k">>}

RelPaths == SeqsUpTo(PathNames, MaxDepth) \ {<<>>}

UrlBases == {<<"h", "t", "t", "p", ":", "/", "/", "h">>, <<"h", "t", "t", "p", ":", "/", "/", "h", "/", "r", "/", "/">>,
             <<"h", "t", "t", "p", ":", "/", "/", "h", "/", "m", "y", " ", "r", "e", "c", "i", "p", "e", "s", "/">>, <<>>}

BaseDirs == {Root, <<<<"m", "y", " ", "r", "e", "c", "i", "p", "e", "s">>, <<"a", "l", "l">>>>}

Elsewhere == <<<<"o", "t", "h", "e", "r", " ", "d", "i", "r">>>>

InitUrl ==
    /\ \E r \in RelPaths, u \in UrlBases, d \in BaseDirs, under \in BOOLEAN :
          urlIn = [rel |-> r, base_url |-> u, base_dir |-> d,
                   path |-> (IF under THEN d ELSE Elsewhere) \o r]
    /\ urlOut = None
    /\ ScanIdle
    /\ ExIdle

CallPathToUrl ==
    /\ urlOut = None
    /\ urlOut' = Some(path_to_url(urlIn.path, urlIn.base_url, urlIn.base_dir))
    /\ UNCHANGED <<urlIn, scanVars, exVars>>

NextUrl == CallPathToUrl

SpecUrl == InitUrl /\ [][NextUrl]_vars

(***************************************************************************)
(* Properties                                                              *)
(***************************************************************************)

\* number of occurrences of x in the sequence s
Count(s, x) == Cardinality({k \in 1..Len(s) : s[k] = x})

\* the i-th recipe file lies in a directory the walk lists
Listed(i) == rootOk /\ (i % 2 = 1 \/ soup = "dir")

\* the recipe files the walk reaches and can read
Readable == {i \in 1..MaxFiles : Listed(i) /\ cook[i].state = "text"}

\* the recipe files the walk reaches and cannot read
Unreadable == {i \in 1..MaxFiles : Listed(i) /\ cook[i].state = "unreadable"}

RECURSIVE RecipesUpTo(_)
\* the Recipe records of the readable files, taken in the order of their numbers
RecipesUpTo(n) ==
    IF n = 0 THEN <<>>
    ELSE IF n \in Readable /\ Extract(cook[n].text) # <<>>
         THEN Append(RecipesUpTo(n - 1),
                     [path |-> CookPath(n), ingredients |-> Extract(cook[n].text)])
         ELSE RecipesUpTo(n - 1)

InOrderRecipes == RecipesUpTo(MaxFiles)

IsPrefixOf(a, b) == Len(a) <= Len(b) /\ SubSeq(b, 1, Len(a)) = a

\* C1: after a scan, for every recipe file in which one normalized name was
\* extracted two or more times, the path list of that name holds the file's
\* path exactly once.
C1_PathOncePerRecipe ==
    pc = "built" =>
        \A k \in 1..Len(recipes) :
            \A n \in Range(recipes[k].ingredients) :
                Count(recipes[k].ingredients, n) >= 2 =>
                    /\ get_recipes_for_ingredient(index, n) # None
                    /\ Count(Unwrap(get_recipes_for_ingredient(index, n)),
                             recipes[k].path) = 1

\* C2: when the root exists and a *.cook file under it cannot be read, new
\* still returns an index, and it is the index of the other readable files.
C2_UnreadableFileSkipped ==
    (rootOk /\ Unreadable # {} /\ pc # "walking") =>
        /\ pc = "built"
        /\ index = create_ingredient_index(InOrderRecipes)

\* C3: when the root does not exist or cannot be read, new returns a failure
\* and no index.
C3_MissingRootFails ==
    (~rootOk /\ pc # "walking") => pc = "failed"

\* C4: whatever order the walk visits the files in, the index is the one the
\* files yield when taken in the order of their numbers, and the document
\* generate_html returns is the one rendered from that index, whatever order
\* the map iterates its keys in.
C4_TraversalOrderIndependent ==
    pc = "built" =>
        /\ index = create_ingredient_index(InOrderRecipes)
        /\ page.html # <<>> =>
              page.html =
                  LET idx == create_ingredient_index(InOrderRecipes)
                      keys == CHOOSE s \in Orders(DOMAIN idx) : TRUE
                  IN  generate_html_index(idx, keys, page.base_url, Root)

\* a built index that two files entered in the reverse of their numbers, one
\* name shared between them, and a document rendered from it
C4_Witness ==
    /\ pc = "built"
    /\ Len(recipes) >= 2
    /\ recipes # InOrderRecipes
    /\ \E n \in DOMAIN index : Cardinality(Range(index[n])) >= 2
    /\ page.html # <<>>

\* C5: get_recipes_for_ingredient(q) compares q as it stands: it returns a
\* list whose paths are exactly the files that yield the name q, and None when
\* no file does.
C5_ExactLookup ==
    (pc = "built" /\ query # None) =>
        LET q == Unwrap(query)
            expected == {CookPath(i) : i \in {j \in Readable :
                                              q \in Range(Extract(cook[j].text))}}
        IN  IF expected = {} THEN found = None
            ELSE found # None /\ Range(Unwrap(found)) = expected

\* "Egg" asked of an index that holds "egg": not found
C5_Witness ==
    /\ pc = "built"
    /\ query = Some(<<"E", "g", "g">>)
    /\ found = None
    /\ <<"e", "g", "g">> \in DOMAIN index

\* C6: the marker text @X{anything} or @X yields exactly the name X, trimmed
\* and lower-cased, and nothing of the {anything} block.
C6_MarkerName ==
    (names # None /\ marker.form \in {"braced", "bare"}) =>
        Unwrap(names) = <<to_lowercase(trim(marker.X))>>

\* "@ B{@a}" yields "b"
C6_Witness ==
    /\ names = Some(<<<<"b">>>>)
    /\ marker.form = "braced"
    /\ marker.X = <<" ", "B">>
    /\ marker.ann = <<"@", "a">>

\* C7 as claimed: the example text yields ["chicken", "onion"].
C7_ExampleYieldsOnion ==
    (names # None /\ marker.form = "example") =>
        Unwrap(names) = <<<<"c", "h", "i", "c", "k", "e", "n">>, <<"o", "n", "i", "o", "n">>>>

\* C7 as amended: the example text yields ["chicken", "onion, diced."]: the
\* second name runs to the end of the text.
C7_ExampleYieldsOnionDiced ==
    (names # None /\ marker.form = "example") =>
        Unwrap(names) = <<<<"c", "h", "i", "c", "k", "e", "n">>,
                          <<"o", "n", "i", "o", "n", ",", " ", "d", "i", "c", "e", "d", ".">>>>

C7_Witness ==
    /\ names # None
    /\ marker.form = "example"
    /\ content = Example
    /\ Len(Unwrap(names)) = 2

\* the path handed to path_to_url lies strictly under base_dir
StrictlyUnder ==
    /\ strip_prefix(urlIn.path, urlIn.base_dir) # None
    /\ Unwrap(strip_prefix(urlIn.path, urlIn.base_dir)) # <<>>

\* C8 as claimed: for a path strictly under base_dir the URL begins with
\* base_url less its trailing slashes and holds no raw space.
C8_PrefixAndNoSpace ==
    (urlOut # None /\ StrictlyUnder) =>
        /\ IsPrefixOf(trim_end_matches(urlIn.base_url, "/"), Unwrap(urlOut))
        /\ " " \notin Range(Unwrap(urlOut))

\* C8 as amended: the URL begins with base_url less its trailing slashes, and
\* what follows that prefix holds no raw space.
C8_PrefixAndNoSpaceAfterIt ==
    (urlOut # None /\ StrictlyUnder) =>
        LET base == trim_end_matches(urlIn.base_url, "/")
            out == Unwrap(urlOut)
        IN  /\ IsPrefixOf(base, out)
            /\ " " \notin Range(SubSeq(out, Len(base) + 1, Len(out)))

\* a path with a blank in two components, a base_url that ends in slashes
C8_Witness ==
    /\ urlOut # None
    /\ StrictlyUnder
    /\ urlIn.rel = <<<<"m", "y", " ", "s", "o", "u", "p">>, <<"b", " ", "c", ".", "c", "o", "o", "k">>>>
    /\ urlIn.base_url = <<"h", "t", "t", "p", ":", "/", "/", "h", "/", "r", "/", "/">>
    /\ Len(Unwrap(urlOut)) > Len(urlIn.base_url)

\* C9: no '<', '>', '&' or quote of an ingredient name or a file stem stands
\* raw in the document (every inserted character is a token of its own).
C9_HtmlEscaped ==
    page.html # <<>> =>
        \A k \in 1..Len(page.html) : page.html[k] \notin {"<", ">", "&", "\"", "'"}

\* C10: only the *.cook files are read, and only their paths enter a path
\* list: never x.cook.bak, x.COOK, x.cookie.
C10_OnlyCookRead ==
    /\ reads \subseteq {CookPath(i) : i \in 1..MaxFiles}
    /\ \A n \in DOMAIN index :
          Range(index[n]) \subseteq {CookPath(i) : i \in 1..MaxFiles}
    /\ decoy.state # "absent" =>
          /\ DecoyPath \notin reads
          /\ \A k \in 1..Len(recipes) : recipes[k].path # DecoyPath

\* a scan over a tree that holds x.COOK beside a recipe file, finished
C10_Witness ==
    /\ pc = "built"
    /\ decoy.state = "text"
    /\ decoy.name = <<"x", ".", "C", "O", "O", "K">>
    /\ reads # {}
    /\ DOMAIN index # {}

\* the positions of the token tok in the document d, and the n-th of them
Positions(d, tok) == {k \in 1..Len(d) : d[k] = tok}
NthOf(S, n) == CHOOSE k \in S : Cardinality({j \in S : j < k}) = n - 1
\* the first position after k that holds tok
NextTok(d, k, tok) == NthOf({j \in Positions(d, tok) : j > k}, 1)

NameTok == "    <div class=\"ingredient-name\">"

\* the number of ingredient blocks of the document, and where the n-th ends
BlockCount(d) == Cardinality(Positions(d, NameTok))
BlockEnd(d, n) ==
    IF n < BlockCount(d) THEN NthOf(Positions(d, NameTok), n + 1) - 1 ELSE Len(d)

\* the name shown by the n-th block
BlockName(d, n) ==
    LET p == NthOf(Positions(d, NameTok), n)
    IN  SubSeq(d, p + 1, NextTok(d, p, "</div>\n") - 1)

\* the link texts of the n-th block, in document order
BlockLinks(d, n) ==
    LET p == NthOf(Positions(d, NameTok), n)
        at == {k \in Positions(d, "\">") : k > p /\ k <= BlockEnd(d, n)}
    IN  [j \in 1..Cardinality(at) |->
            SubSeq(d, NthOf(at, j) + 1, NextTok(d, NthOf(at, j), "</a></li>\n") - 1)]

\* a file stem with every '-' and '_' turned into a blank
Spaced(stem) == [k \in 1..Len(stem) |-> IF stem[k] \in {"-", "_"} THEN " " ELSE stem[k]]

\* s holds every member of S exactly once, in strictly ascending order
AscendingListOf(s, S) ==
    /\ Len(s) = Cardinality(S)
    /\ Range(s) = S
    /\ \A i, j \in 1..Len(s) : i < j => CharLess(s[i], s[j])

\* C11: ingredients() returns every key of the index once, in ascending
\* order; generate_html renders one block per key in that order, and in each
\* block one link per entry of the key's path list, in the list's order, its
\* text the file stem with '-' and '_' replaced by blanks.
C11_SortedKeysAndBlocks ==
    /\ listed # None => AscendingListOf(Unwrap(listed), DOMAIN index)
    /\ page.html # <<>> =>
          LET d == page.html
              shown == [n \in 1..BlockCount(d) |-> BlockName(d, n)]
          IN  /\ AscendingListOf(shown, DOMAIN index)
              /\ \A n \in 1..BlockCount(d) :
                    BlockLinks(d, n) =
                        [k \in 1..Len(index[shown[n]]) |->
                            Spaced(Unwrap(file_stem(index[shown[n]][k])))]

\* two keys listed and rendered, one of them with two recipes, whose stems
\* hold '_' and '-'
C11_Witness ==
    /\ listed # None
    /\ Len(Unwrap(listed)) >= 2
    /\ page.html # <<>>
    /\ \E n \in DOMAIN index :
          /\ Len(index[n]) >= 2
          /\ \E k \in 1..Len(index[n]) : "_" \in Range(Unwrap(file_stem(index[n][k])))
          /\ \E k \in 1..Len(index[n]) : "-" \in Range(Unwrap(file_stem(index[n][k])))

\* C12: after a scan every key of the index is non-empty, has no blank at
\* either end and no upper-case character, and maps to a non-empty path list;
\* a marker whose name is only blanks creates no empty key.
C12_KeysNormalizedNonEmpty ==
    pc = "built" =>
        \A n \in DOMAIN index :
            /\ n # <<>>
            /\ trim(n) = n
            /\ \A k \in 1..Len(n) : ~IsUpper(n[k])
            /\ index[n] # <<>>

====
